---- MODULE Spec2Model ----
(***************************************************************************)
(* Model of scripts/failure_explainer.py: the Playwright results walker    *)
(* (PlaywrightResultsParser), the response parser of AzureOpenAIAnalyzer,  *)
(* the report generator and main().                                        *)
(*                                                                         *)
(* Text is modelled as a sequence of tokens (a token is a word, a file     *)
(* extension, a MIME prefix, a section marker or a whitespace run), so     *)
(* that substring, prefix, suffix, strip and regular-expression search are *)
(* computed, token by token, the way the Python code computes them.        *)
(* Opaque strings (status, file, title, message) are TLA+ strings.         *)
(* A Python dict is a function on its keys: an absent key is absent from   *)
(* the DOMAIN.  Optional[...] is <<>> for None and <<v>> for a value.      *)
(***************************************************************************)
EXTENDS Integers, Sequences, FiniteSets, TLC

VARIABLES
    pc,          \* position of main(): start, loaded, extracted, ...
    env,         \* AZURE_OPENAI_ENDPOINT and AZURE_OPENAI_API_KEY of the environment
    file,        \* the results file on disk: a document, or an unreadable one
    results,     \* PlaywrightResultsParser.results (None before load)
    failures,    \* the list returned by get_failures, as main() holds it
    configured,  \* AzureOpenAIAnalyzer.is_configured()
    idx,         \* the analysis loop's position in failures (from 1)
    requests,    \* the backend requests issued so far (failure indices, from 0)
    answers,     \* what the backend answered to them, in order
    outDir,      \* whether ReportGenerator has made the output directories
    disk,        \* what the file system holds for each copy the HTML run attempts
    assets,      \* the copies made into assets/: source, destination name and slot
    stats,       \* total_duration, avg_duration, files_affected of the HTML run
    html,        \* failure-explanations.html as written, or None
    json,        \* failure-explanations.json as written, or None
    response,    \* the raw text handed to _parse_response
    parsed       \* the FailureAnalysis it returned, or None

vars == <<pc, env, file, results, failures, configured, idx, requests, answers,
          outDir, disk, assets, stats, html, json, response, parsed>>

(***************************************************************************)
(* Bounds of the model.                                                    *)
(***************************************************************************)
\* suites of a generated suite forest (nested to any depth within it)
MaxSuites == 3
\* specs + tests + results of a generated suite
MaxSpecNodes == 6
\* attachments of one result
MaxAttachments == 2
\* tokens of a backend response
MaxResponseLen == 6
\* records of a list handed to generate_json_report on its own
MaxRecords == 2

(***************************************************************************)
(* Python helpers.                                                         *)
(***************************************************************************)
None == <<>>
Some(v) == <<v>>

\* dict.get(k, default)
Get(d, k, default) == IF k \in DOMAIN d THEN d[k] ELSE default

\* truth value of d.get(k) for a list- or dict-valued key: absent, [] and {}
\* are falsy
Truthy(d, k) == k \in DOMAIN d /\ DOMAIN d[k] # {}

\* str.lower(), token by token
LowerTok(t) ==
    CASE t = "Screenshot" -> "screenshot"
      [] t = "TRACE" -> "trace"
      [] t = "Video" -> "video"
      [] OTHER -> t

Lower(s) == [i \in DOMAIN s |-> LowerTok(s[i])]

\* sub in s
Contains(sub, s) == \E i \in DOMAIN s : s[i] = sub

\* s.startswith(prefix), s.endswith(suffix)
StartsWith(s, prefix) == Len(s) > 0 /\ s[1] = prefix
EndsWith(s, suffix) == Len(s) > 0 /\ s[Len(s)] = suffix

RECURSIVE ConcatAll(_)
\* list.extend over a sequence of lists
ConcatAll(ss) == IF ss = <<>> THEN <<>> ELSE Head(ss) \o ConcatAll(Tail(ss))

(***************************************************************************)
(* AzureOpenAIAnalyzer._parse_response.  A response is a sequence of       *)
(* tokens: a section marker (one token for the whole marker text), a       *)
(* newline, or a word without '*' and without whitespace.                   *)
(***************************************************************************)
RootCauseMarker == "**Root Cause:**"
ExplanationMarker == "**Explanation:**"
SuggestedFixMarker == "**Suggested Fix:**"
Newline == "\n"

\* re.IGNORECASE: the text compared in lower case
FoldCase(t) ==
    CASE t = "**Root Cause:**" -> "**root cause:**"
      [] t = "**Explanation:**" -> "**explanation:**"
      [] t = "**EXPLANATION:**" -> "**explanation:**"
      [] t = "**Suggested Fix:**" -> "**suggested fix:**"
      [] OTHER -> t

\* the pattern text m matches at token t
IsMarker(t, m) == FoldCase(t) = FoldCase(m)

RECURSIVE LStrip(_)
LStrip(s) == IF s # <<>> /\ Head(s) = Newline THEN LStrip(Tail(s)) ELSE s

RECURSIVE RStrip(_)
RStrip(s) ==
    IF s # <<>> /\ s[Len(s)] = Newline THEN RStrip(SubSeq(s, 1, Len(s) - 1)) ELSE s

\* str.strip()
Strip(s) == RStrip(LStrip(s))

\* the lookahead (?=<stop>|$) at position e of s, for the stop markers given:
\* a stop marker starts at e, or e is the end of s or just before its final
\* newline
LookaheadAt(s, e, stops) ==
    \/ e = Len(s) + 1
    \/ e = Len(s) /\ s[e] = Newline
    \/ e <= Len(s) /\ \E m \in stops : IsMarker(s[e], m)

\* the match of  <marker>\s*(.+?)(?=<stop>|$)  with the marker at token i:
\* \s* takes the longest whitespace run that leaves (.+?) a token, (.+?)
\* takes at least one token and stops at the first position where the
\* lookahead holds.  <<>> when it cannot match, else <<group(1)>>.
MatchAt(s, i, stops) ==
    LET j == i + 1
        run == {n \in 0..(Len(s) - i) : \A k \in j..(j + n - 1) : s[k] = Newline}
        fits == {n \in run : j + n <= Len(s)}
    IN  IF fits = {} THEN None
        ELSE LET n == CHOOSE x \in fits : \A y \in fits : y <= x
                 g == j + n
                 e == CHOOSE x \in (g + 1)..(Len(s) + 1) :
                        /\ LookaheadAt(s, x, stops)
                        /\ \A y \in (g + 1)..(x - 1) : ~LookaheadAt(s, y, stops)
             IN  Some(SubSeq(s, g, e - 1))

\* re.search: the match at the leftmost token where the pattern matches
Search(s, marker, stops) ==
    LET at == {i \in DOMAIN s : IsMarker(s[i], marker) /\ MatchAt(s, i, stops) # None}
    IN  IF at = {} THEN None
        ELSE MatchAt(s, CHOOSE i \in at : \A k \in at : i <= k, stops)

\* match.group(1).strip() if the pattern matched, else ""
Section(s, marker, stops) ==
    LET m == Search(s, marker, stops)
    IN  IF m = None THEN <<>> ELSE Strip(m[1])

\* the three extractions of _parse_response
Extract(s) ==
    [root_cause |-> Section(s, RootCauseMarker, {ExplanationMarker}),
     explanation |-> Section(s, ExplanationMarker, {SuggestedFixMarker}),
     suggested_fix |-> Section(s, SuggestedFixMarker, {})]

SeeExplanation == <<"See explanation">>

\* mutant of Fallback: no fallback
Fallback_None(fields, s) == fields

\* if not (root_cause or explanation or suggested_fix): the raw response is
\* the explanation
Fallback(fields, s) ==
    IF fields.root_cause = <<>> /\ fields.explanation = <<>> /\ fields.suggested_fix = <<>>
      THEN [root_cause |-> SeeExplanation, explanation |-> s, suggested_fix |-> SeeExplanation]
      ELSE fields

_parse_response(s) == Fallback(Extract(s), s)

(***************************************************************************)
(* PlaywrightResultsParser.get_failures: the attachment classification.    *)
(***************************************************************************)
\* the screenshot test of process_suite: 'screenshot' in att_name or
\* content_type.startswith('image/')
IsScreenshot(att) ==
    \/ Contains("screenshot", Lower(Get(att, "name", <<>>)))
    \/ StartsWith(Get(att, "contentType", <<>>), "image/")

\* the trace test: 'trace' in att_name or att_path.endswith('.zip')
IsTrace(att) ==
    \/ Contains("trace", Lower(Get(att, "name", <<>>)))
    \/ EndsWith(Get(att, "path", <<>>), ".zip")

\* the video test: 'video' in att_name or content_type.startswith('video/')
IsVideo(att) ==
    \/ Contains("video", Lower(Get(att, "name", <<>>)))
    \/ StartsWith(Get(att, "contentType", <<>>), "video/")

\* the dict appended to screenshots
ScreenshotEntry(att) ==
    [name |-> Get(att, "name", <<"screenshot">>),
     path |-> Get(att, "path", <<>>),
     contentType |-> Get(att, "contentType", <<>>)]

\* mutant of ClassifyStep: an attachment that is no screenshot and no trace
\* is taken for the video
ClassifyStep_CatchAll(acc, att) ==
    IF IsScreenshot(att)
      THEN [acc EXCEPT !.screenshots = Append(@, ScreenshotEntry(att))]
    ELSE IF IsTrace(att)
      THEN [acc EXCEPT !.trace_path = Some(Get(att, "path", <<>>))]
    ELSE [acc EXCEPT !.video_path = Some(Get(att, "path", <<>>))]

\* mutant of ClassifyStep: the trace rule tested before the screenshot rule
ClassifyStep_TraceFirst(acc, att) ==
    IF IsTrace(att)
      THEN [acc EXCEPT !.trace_path = Some(Get(att, "path", <<>>))]
    ELSE IF IsScreenshot(att)
      THEN [acc EXCEPT !.screenshots = Append(@, ScreenshotEntry(att))]
    ELSE IF IsVideo(att)
      THEN [acc EXCEPT !.video_path = Some(Get(att, "path", <<>>))]
    ELSE acc

\* one iteration of the loop over attachments: the if / elif / elif chain
ClassifyStep(acc, att) ==
    IF IsScreenshot(att)
      THEN [acc EXCEPT !.screenshots = Append(@, ScreenshotEntry(att))]
    ELSE IF IsTrace(att)
      THEN [acc EXCEPT !.trace_path = Some(Get(att, "path", <<>>))]
    ELSE IF IsVideo(att)
      THEN [acc EXCEPT !.video_path = Some(Get(att, "path", <<>>))]
    ELSE acc

RECURSIVE ClassifyFrom(_, _)
ClassifyFrom(acc, atts) ==
    IF atts = <<>> THEN acc
    ELSE ClassifyFrom(ClassifyStep(acc, Head(atts)), Tail(atts))

\* screenshots = [], trace_path = None, video_path = None, then the loop
Classify(attachments) ==
    ClassifyFrom([screenshots |-> <<>>, trace_path |-> None, video_path |-> None],
                 attachments)

(***************************************************************************)
(* PlaywrightResultsParser.get_failures: the tree walk.                    *)
(***************************************************************************)
\* mutants of IsFailedStatus: the timeout status forgotten; every status but
\* passed taken for a failure
IsFailedStatus_OnlyFailed(status) == status = "failed"
IsFailedStatus_NotPassed(status) == status # "passed"

\* status in ['failed', 'timedOut']
IsFailedStatus(status) == status \in {"failed", "timedOut"}

\* mutant of ExtractError: the singular error is looked at first
ExtractError_SingularFirst(result) ==
    IF Truthy(result, "error")
      THEN [message |-> Get(result.error, "message", ""),
            stack |-> Get(result.error, "stack", "")]
    ELSE IF Truthy(result, "errors")
      THEN [message |-> Get(result.errors[1], "message", ""),
            stack |-> Get(result.errors[1], "stack", "")]
    ELSE [message |-> "", stack |-> ""]

\* error_msg, error_stack: result['errors'][0] if result.get('errors'),
\* else result['error'] if result.get('error'), else '' and ''
ExtractError(result) ==
    IF Truthy(result, "errors")
      THEN [message |-> Get(result.errors[1], "message", ""),
            stack |-> Get(result.errors[1], "stack", "")]
    ELSE IF Truthy(result, "error")
      THEN [message |-> Get(result.error, "message", ""),
            stack |-> Get(result.error, "stack", "")]
    ELSE [message |-> "", stack |-> ""]

\* TestFailure(...) as process_suite builds it; analysis defaults to None
TestFailure(spec, file_path, result) ==
    LET err == ExtractError(result)
        attachments == Get(result, "attachments", <<>>)
        cls == Classify(attachments)
    IN  [test_name |-> Get(spec, "title", "Unknown"),
         test_file |-> file_path,
         duration_ms |-> Get(result, "duration", 0),
         error_message |-> err.message,
         error_stack |-> err.stack,
         status |-> Get(result, "status", ""),
         attachments |-> attachments,
         screenshots |-> cls.screenshots,
         trace_path |-> cls.trace_path,
         video_path |-> cls.video_path,
         analysis |-> None]

\* for result in test.get('results', []): one record per failed result
TestFailures(spec, test, file_path) ==
    LET rs == Get(test, "results", <<>>)
    IN  ConcatAll([r \in DOMAIN rs |->
            IF IsFailedStatus(Get(rs[r], "status", ""))
              THEN <<TestFailure(spec, file_path, rs[r])>>
              ELSE <<>>])

\* for test in spec.get('tests', [])
SpecFailures(spec, file_path) ==
    LET ts == Get(spec, "tests", <<>>)
    IN  ConcatAll([t \in DOMAIN ts |-> TestFailures(spec, ts[t], file_path)])

\* mutant of FilePath: the parent's file is not inherited
FilePath_NoInherit(suite, parent_file) == Get(suite, "file", "")

\* file_path = suite.get('file', parent_file)
FilePath(suite, parent_file) == Get(suite, "file", parent_file)

\* mutant of SuiteOrder: the child suites are walked before the specs
SuiteOrder_ChildrenFirst(own, children) == children \o own

\* suite_failures after the specs loop, extended by the child suites' lists
SuiteOrder(own, children) == own \o children

RECURSIVE process_suite(_, _)
process_suite(suite, parent_file) ==
    LET file_path == FilePath(suite, parent_file)
        specs == Get(suite, "specs", <<>>)
        subs == Get(suite, "suites", <<>>)
        own == ConcatAll([s \in DOMAIN specs |-> SpecFailures(specs[s], file_path)])
        children == ConcatAll([c \in DOMAIN subs |-> process_suite(subs[c], file_path)])
    IN  SuiteOrder(own, children)

\* get_failures: [] when results is None or empty, else the top-level suites
\* in order, each walked with parent_file = ""
get_failures(res) ==
    IF res = None \/ DOMAIN res[1] = {} THEN <<>>
    ELSE LET suites == Get(res[1], "suites", <<>>)
         IN  ConcatAll([k \in DOMAIN suites |-> process_suite(suites[k], "")])


(***************************************************************************)
(* The input documents.  NestedDocs: every forest of at most MaxSuites     *)
(* suites, each declaring a file or not and holding no spec or one failed  *)
(* result.  FlatDocs: one suite whose specs, tests and results take every  *)
(* arrangement of at most MaxSpecNodes nodes.                              *)
(***************************************************************************)
Files == {"a.spec.ts", "b.spec.ts"}

TreeResults == {[status |-> s] : s \in {"failed", "timedOut", "passed"}}

RECURSIVE TestSeqs(_)
RECURSIVE SpecSeqs(_)
RECURSIVE SuiteSeqs(_)

\* a test of w nodes: itself and w - 1 results
Tests(w) == {[results |-> rs] : rs \in [1..(w - 1) -> TreeResults]}

TestSeqs(n) ==
    IF n = 0 THEN {<<>>}
    ELSE UNION {{<<t>> \o rest : t \in Tests(w), rest \in TestSeqs(n - w)} : w \in 1..n}

Specs(w) == {[title |-> "t", tests |-> ts] : ts \in TestSeqs(w - 1)}

SpecSeqs(n) ==
    IF n = 0 THEN {<<>>}
    ELSE UNION {{<<s>> \o rest : s \in Specs(w), rest \in SpecSeqs(n - w)} : w \in 1..n}

OneFailedSpec == [title |-> "t", tests |-> <<[results |-> <<[status |-> "failed"]>>]>>]

\* a suite with w - 1 descendants, with or without a file
Suites(w) ==
    LET body == {[specs |-> sp, suites |-> ch] :
                     sp \in {<<>>, <<OneFailedSpec>>}, ch \in SuiteSeqs(w - 1)}
    IN  body \cup {b @@ [file |-> f] : b \in body, f \in Files}

SuiteSeqs(n) ==
    IF n = 0 THEN {<<>>}
    ELSE UNION {{<<s>> \o rest : s \in Suites(w), rest \in SuiteSeqs(n - w)} : w \in 1..n}

NestedDocs == UNION {{[suites |-> ss] : ss \in SuiteSeqs(n)} : n \in 0..MaxSuites}

FlatDocs ==
    UNION {{[suites |-> <<[file |-> "a.spec.ts", specs |-> sp, suites |-> <<>>]>>] :
                sp \in SpecSeqs(n)} : n \in 0..MaxSpecNodes}

TreeDocs == NestedDocs \cup FlatDocs

(***************************************************************************)
(* ResultDocs: one suite, one spec, one test, one result, the result       *)
(* taking every combination of status, error, errors, title and duration;  *)
(* AttachmentDocs: one failed result with every attachment list of at most *)
(* MaxAttachments attachments.                                             *)
(***************************************************************************)
\* a key that is absent, or present with a value of S
Optional(k, S) == {<<>>} \cup {k :> v : v \in S}

Statuses == {"failed", "timedOut", "timed_out", "passed", "skipped", "interrupted"}

ErrorDicts == {<<>>, [message |-> "E"], [message |-> "E", stack |-> "at E"]}

ErrorLists ==
    {<<>>,
     <<[message |-> "P1", stack |-> "at P1"]>>,
     <<[message |-> "P1", stack |-> "at P1"], [message |-> "P2", stack |-> "at P2"]>>,
     <<[stack |-> "at P3"]>>}

Results ==
    {st @@ du @@ e1 @@ e2 :
        st \in Optional("status", Statuses), du \in Optional("duration", {1234}),
        e1 \in Optional("error", ErrorDicts), e2 \in Optional("errors", ErrorLists)}

\* {name, path, contentType} as Playwright writes them, and odd ones
Attachments ==
    {[name |-> <<"screenshot">>, path |-> <<"a", ".png">>, contentType |-> <<"image/", "png">>],
     [name |-> <<"page">>, path |-> <<"b", ".jpg">>, contentType |-> <<"image/", "jpeg">>],
     [path |-> <<"c", ".png">>, contentType |-> <<"image/", "png">>],
     [name |-> <<"Screenshot">>, path |-> <<"d">>],
     [name |-> <<"trace">>, path |-> <<"t1", ".zip">>, contentType |-> <<"application/", "zip">>],
     [name |-> <<"archive">>, path |-> <<"t2", ".zip">>, contentType |-> <<"application/", "zip">>],
     [name |-> <<"TRACE">>],
     [name |-> <<"video">>, path |-> <<"v1", ".webm">>, contentType |-> <<"video/", "webm">>],
     [name |-> <<"recording">>, path |-> <<"v2", ".webm">>, contentType |-> <<"video/", "webm">>],
     [name |-> <<"stdout">>, path |-> <<"out", ".txt">>, contentType |-> <<"text/", "plain">>],
     [name |-> <<"trace", "screenshot">>, path |-> <<"e", ".zip">>, contentType |-> <<"video/", "webm">>]}

AttachmentLists == UNION {[1..n -> Attachments] : n \in 0..MaxAttachments}

SingleResultDoc(spec, result) ==
    [suites |-> <<[file |-> "login.spec.ts",
                   specs |-> <<spec @@ [tests |-> <<[results |-> <<result>>]>>]>>,
                   suites |-> <<>>]>>]

ResultDocs ==
    {SingleResultDoc(sp, r) : sp \in Optional("title", {"user can log in"}), r \in Results}

AttachmentDocs ==
    {SingleResultDoc([title |-> "user can log in"],
                     [status |-> "failed", error |-> [message |-> "E"]] @@ at) :
        at \in Optional("attachments", AttachmentLists)}

\* documents without a suites list: {} and a dict with other keys only
BareDocs == {<<>>, [config |-> "c"]}

\* two failures whose screenshots have one source path and whose traces
\* have one source path
SharedAssetsDoc ==
    [suites |->
        <<[file |-> "b.spec.ts",
           specs |-> <<[title |-> "s3",
                        tests |-> <<[results |->
                            <<[status |-> "failed", duration |-> 400,
                               error |-> [message |-> "Q1"],
                               attachments |->
                                 <<[name |-> <<"screenshot">>, path |-> <<"a", ".jpg">>,
                                    contentType |-> <<"image/", "jpeg">>],
                                   [name |-> <<"trace">>, path |-> <<"t1", ".zip">>,
                                    contentType |-> <<"application/", "zip">>]>>],
                              [status |-> "failed", duration |-> 600,
                               error |-> [message |-> "Q2"],
                               attachments |->
                                 <<[name |-> <<"screenshot">>, path |-> <<"a", ".jpg">>,
                                    contentType |-> <<"image/", "jpeg">>],
                                   [name |-> <<"trace">>, path |-> <<"t1", ".zip">>,
                                    contentType |-> <<"application/", "zip">>]>>]>>]>>]>>,
           suites |-> <<>>]>>]

Docs == TreeDocs \cup ResultDocs \cup AttachmentDocs \cup BareDocs \cup {SharedAssetsDoc}

\* the documents of the full runs of main()
PassedDoc == SingleResultDoc([title |-> "user can log in"], [status |-> "passed", duration |-> 900])

ScenarioDoc ==
    SingleResultDoc([title |-> "user can log in"],
                    [status |-> "failed", duration |-> 1234,
                     error |-> [message |-> "Timeout waiting for selector",
                                stack |-> "at line 10..."]])

TwoFailuresDoc ==
    [suites |->
        <<[file |-> "a.spec.ts",
           specs |-> <<[title |-> "s1",
                        tests |-> <<[results |->
                            <<[status |-> "failed", duration |-> 1500,
                               errors |-> <<[message |-> "P1", stack |-> "at P1"]>>,
                               attachments |->
                                 <<[name |-> <<"screenshot">>, path |-> <<"a", ".png">>,
                                    contentType |-> <<"image/", "png">>],
                                   [name |-> <<"Screenshot">>, path |-> <<"d">>],
                                   [name |-> <<"trace">>, path |-> <<"t1", ".zip">>,
                                    contentType |-> <<"application/", "zip">>]>>]>>]>>]>>,
           suites |->
             <<[specs |-> <<[title |-> "s2",
                             tests |-> <<[results |->
                                 <<[status |-> "timedOut", duration |-> 2501,
                                    attachments |->
                                      <<[name |-> <<"stdout">>, path |-> <<"out", ".txt">>,
                                         contentType |-> <<"text/", "plain">>]>>]>>]>>]>>,
                suites |-> <<>>]>>]>>]

\* a failure whose title, file and message are one reserved character each,
\* with a screenshot named with all five and kept in a directory
MarkupDoc ==
    [suites |->
        <<[file |-> "&",
           specs |-> <<[title |-> "<",
                        tests |-> <<[results |->
                            <<[status |-> "failed", duration |-> 10,
                               error |-> [message |-> "\"", stack |-> "'"],
                               attachments |->
                                 <<[name |-> <<"screenshot", "&", "<", ">", "\"", "'">>,
                                    path |-> <<"test-results/", "m", ".png">>,
                                    contentType |-> <<"image/", "png">>]>>]>>]>>]>>]>>]

MainDocs ==
    BareDocs \cup {[suites |-> <<>>], PassedDoc, ScenarioDoc, TwoFailuresDoc, MarkupDoc,
                   SharedAssetsDoc}

\* the results file: not there, there but not JSON, or a JSON document
ResultsFiles(D) ==
    {[kind |-> "missing"], [kind |-> "invalid"]} \cup {[kind |-> "json", doc |-> d] : d \in D}

\* the responses of the walk's specification: every token sequence of at
\* most MaxResponseLen tokens
ResponseTokens ==
    {RootCauseMarker, ExplanationMarker, "**EXPLANATION:**", SuggestedFixMarker, Newline, "w"}

Responses == UNION {[1..n -> ResponseTokens] : n \in 0..MaxResponseLen}

\* what the backend answers in a full run: an exception, a message without
\* content, or text
MainResponses ==
    {<<>>, <<"w">>, <<"<", "CODE(w)", "**w**", Newline, "1. ", "w", Newline, "&">>,
     <<RootCauseMarker, Newline, "w", Newline, ExplanationMarker, "w", Newline,
       SuggestedFixMarker, "w">>}

BackendOutcomes ==
    {[kind |-> "error", description |-> "Connection error."], [kind |-> "no_content"]}
        \cup {[kind |-> "text", content |-> r] : r \in MainResponses}

(***************************************************************************)
(* AzureOpenAIAnalyzer.analyze_failure.                                    *)
(***************************************************************************)
\* the environments of a run: each credential set or empty
Environments == [endpoint : {"", "https://x.openai.azure.com"}, api_key : {"", "key"}]

\* mutant of is_configured: only the endpoint is looked at
is_configured_EndpointOnly(endpoint, api_key) == endpoint # ""

\* bool(self.endpoint and self.api_key)
is_configured(endpoint, api_key) == endpoint # "" /\ api_key # ""

NotConfigured ==
    [root_cause |-> <<"Azure OpenAI not configured">>,
     explanation |-> <<"Please set AZURE_OPENAI_ENDPOINT and AZURE_OPENAI_API_KEY environment variables.">>,
     suggested_fix |-> <<"Configure Azure OpenAI credentials in your .env file.">>]

\* the except branch: str(e) embedded in the explanation
AnalysisError(description) ==
    [root_cause |-> <<"AI Analysis Error">>,
     explanation |-> <<"Failed to get AI analysis: ", description>>,
     suggested_fix |-> <<"Check Azure OpenAI configuration and connectivity.">>]

\* the try block, for what the backend answered: create() raises, or
\* content is None and re.search raises TypeError, or content is parsed
\* mutant of analyze_failure: a message without content is parsed as the
\* empty text
analyze_failure_NoneAsEmpty(outcome) ==
    CASE outcome.kind = "error" -> AnalysisError(outcome.description)
      [] outcome.kind = "no_content" -> _parse_response(<<>>)
      [] outcome.kind = "text" -> _parse_response(outcome.content)

analyze_failure(outcome) ==
    CASE outcome.kind = "error" -> AnalysisError(outcome.description)
      [] outcome.kind = "no_content" -> AnalysisError("expected string or bytes-like object")
      [] outcome.kind = "text" -> _parse_response(outcome.content)

(***************************************************************************)
(* ReportGenerator.                                                        *)
(***************************************************************************)
\* an opaque string as text: one token, none for the empty string
Text(s) == IF s = "" THEN <<>> ELSE <<s>>

\* str.replace(old, new), old and new one token each
Replace(text, old, new) == [i \in DOMAIN text |-> IF text[i] = old THEN new ELSE text[i]]

\* mutant of _escape_html: the quotes are left as they are
_escape_html_NoQuotes(text) ==
    Replace(Replace(Replace(text, "&", "&amp;"), "<", "&lt;"), ">", "&gt;")

\* _escape_html: "" for a falsy text, else the five replacements in order
_escape_html(text) ==
    IF text = <<>> THEN <<>>
    ELSE Replace(Replace(Replace(Replace(Replace(text,
            "&", "&amp;"), "<", "&lt;"), ">", "&gt;"), "\"", "&quot;"), "'", "&#039;")

\* the two span substitutions of _format_markdown, on the spans the texts
\* of the model hold: a backtick-delimited span, written CODE(w) here, gets
\* <code>, a span between double asterisks gets <strong>
MarkSpan(t) ==
    CASE t = "CODE(w)" -> "<code>w</code>"
      [] t = "**w**" -> "<strong>w</strong>"
      [] t = RootCauseMarker -> "<strong>Root Cause:</strong>"
      [] t = ExplanationMarker -> "<strong>Explanation:</strong>"
      [] t = "**EXPLANATION:**" -> "<strong>EXPLANATION:</strong>"
      [] t = SuggestedFixMarker -> "<strong>Suggested Fix:</strong>"
      [] OTHER -> t

\* re.sub(r'\n\d+\.\s+', ...): a newline and the item number after it
\* become one line break and bullet (the bullet written as its entity here)
RECURSIVE Bullets(_)
Bullets(text) ==
    IF text = <<>> THEN <<>>
    ELSE IF Len(text) >= 2 /\ text[1] = Newline /\ text[2] = "1. "
      THEN <<"<br>&bull; ">> \o Bullets(Tail(Tail(text)))
    ELSE <<Head(text)>> \o Bullets(Tail(text))

\* _format_markdown: escape, then code and bold spans, bullets, <br>
_format_markdown(text) ==
    IF text = <<>> THEN <<>>
    ELSE LET html1 == _escape_html(text)
             html2 == [i \in DOMAIN html1 |-> MarkSpan(html1[i])]
             html3 == Bullets(html2)
         IN  Replace(html3, Newline, "<br>")

\* the ANSI colour sequences re.sub(r'\x1b\[[0-9;]*m', '', ...) removes
AnsiCodes == {"ESC[31m", "ESC[0m"}
StripAnsi(text) == SelectSeq(text, LAMBDA t : t \notin AnsiCodes)

\* clean_error[:2000]
ErrorLimit == 2000
Truncate(text, n) == IF Len(text) <= n THEN text ELSE SubSeq(text, 1, n)

\* the directories of a path, and Path(src).name
Directories == {"test-results/", "playwright-report/", "data/"}
Name(path) == SelectSeq(path, LAMBDA t : t \notin Directories)

\* f"{i}" for the indices the model reaches
Str(n) ==
    CASE n = 0 -> "0" [] n = 1 -> "1" [] n = 2 -> "2" [] n = 3 -> "3" [] n = 4 -> "4"
      [] OTHER -> "n"

\* Path(src).suffix: the extension, "" without one
Suffix(path) ==
    IF Len(path) > 1 /\ path[Len(path)] \in {".png", ".jpg", ".zip", ".webm", ".txt"}
      THEN path[Len(path)] ELSE ""

\* what the file system does to one copy: the source is there; it is not
\* but playwright-report/data/<name> is; neither is; shutil.copy2 raises
ScreenshotOutcomes == {"source", "fallback", "missing", "copy_error"}
TraceOutcomes == {"source", "missing", "copy_error"}

\* the file _copy_screenshot reads: src, or
\* playwright_report_dir / "data" / src.name
ScreenshotSource(src_path, outcome) ==
    IF outcome = "fallback" THEN <<"playwright-report/", "data/">> \o Name(src_path)
    ELSE src_path

\* mutant of _copy_screenshot: no lookup in playwright-report/data
_copy_screenshot_NoFallback(src_path, index, test_index, outcome) ==
    IF src_path = <<>> THEN None
    ELSE IF outcome \in {"fallback", "missing", "copy_error"} THEN None
    ELSE Some(<<"assets/", "screenshot-", Str(test_index), "-", Str(index),
                IF Suffix(src_path) = "" THEN ".png" ELSE Suffix(src_path)>>)

\* _copy_screenshot: the relative path, or None
_copy_screenshot(src_path, index, test_index, outcome) ==
    IF src_path = <<>> THEN None
    ELSE IF outcome \in {"missing", "copy_error"} THEN None
    ELSE Some(<<"assets/", "screenshot-", Str(test_index), "-", Str(index),
                IF Suffix(src_path) = "" THEN ".png" ELSE Suffix(src_path)>>)

\* mutant of _copy_trace: the destination named without the failure's index
_copy_trace_NoIndex(src_path, test_index, outcome) ==
    IF src_path = <<>> THEN None
    ELSE IF outcome \in {"missing", "copy_error"} THEN None
    ELSE Some(<<"assets/", "trace", ".zip">>)

\* _copy_trace: the relative path, or None
_copy_trace(src_path, test_index, outcome) ==
    IF src_path = <<>> THEN None
    ELSE IF outcome \in {"missing", "copy_error"} THEN None
    ELSE Some(<<"assets/", "trace-", Str(test_index), ".zip">>)

\* the slots of the copies of a run: <<i, j>> for screenshot j of failure i,
\* <<i>> for the trace of failure i (indices from 0, as enumerate counts)
ScreenshotSlots(fs) ==
    UNION {{<<i - 1, j - 1>> : j \in DOMAIN fs[i].screenshots} : i \in DOMAIN fs}
TraceSlots(fs) ==
    {<<i - 1>> : i \in {k \in DOMAIN fs :
                          fs[k].trace_path # None /\ fs[k].trace_path # Some(<<>>)}}

\* processed_screenshots of failure i (from 0): the screenshots whose copy
\* returned a path, in order
RECURSIVE ProcessedFrom(_, _, _, _)
ProcessedFrom(shots, j, i, oc) ==
    IF j > Len(shots) THEN <<>>
    ELSE LET rel == _copy_screenshot(Get(shots[j], "path", <<>>), j - 1, i, oc[<<i, j - 1>>])
         IN  (IF rel = None THEN <<>>
              ELSE <<[name |-> Get(shots[j], "name", <<"screenshot">>), path |-> rel[1]]>>)
             \o ProcessedFrom(shots, j + 1, i, oc)

\* the first loop of generate_html_report on one failure: screenshots
\* replaced by the processed ones; trace_path, when it is truthy, by what
\* _copy_trace returned
ProcessAssets(f, i, oc) ==
    [f EXCEPT !.screenshots = ProcessedFrom(f.screenshots, 1, i, oc),
              !.trace_path = IF f.trace_path = None \/ f.trace_path = Some(<<>>)
                               THEN f.trace_path
                               ELSE _copy_trace(f.trace_path[1], i, oc[<<i>>])]

\* the copies a run of the first loop makes: the destination written and
\* the slot it was written for
CopiedAssets(fs, oc) ==
    {[src |-> ScreenshotSource(Get(fs[sl[1] + 1].screenshots[sl[2] + 1], "path", <<>>),
                               oc[sl]),
      dest |-> _copy_screenshot(Get(fs[sl[1] + 1].screenshots[sl[2] + 1], "path", <<>>),
                                sl[2], sl[1], oc[sl])[1],
      slot |-> sl] :
        sl \in {x \in ScreenshotSlots(fs) :
                  _copy_screenshot(Get(fs[x[1] + 1].screenshots[x[2] + 1], "path", <<>>),
                                   x[2], x[1], oc[x]) # None}}
      \cup
    {[src |-> fs[sl[1] + 1].trace_path[1],
      dest |-> _copy_trace(fs[sl[1] + 1].trace_path[1], sl[1], oc[sl])[1], slot |-> sl] :
        sl \in {x \in TraceSlots(fs) :
                  _copy_trace(fs[x[1] + 1].trace_path[1], x[1], oc[x]) # None}}

RECURSIVE Sum(_)
Sum(ns) == IF ns = <<>> THEN 0 ELSE Head(ns) + Sum(Tail(ns))

\* total_duration, avg_duration, files_affected
Statistics(fs) ==
    LET total_duration == Sum([i \in DOMAIN fs |-> fs[i].duration_ms])
    IN  [total_duration |-> total_duration,
         avg_duration |-> IF fs # <<>> THEN total_duration \div Len(fs) ELSE 0,
         files_affected |-> Cardinality({fs[i].test_file : i \in DOMAIN fs})]

\* the card of one screenshot: path in onclick and src, name in alt, as
\* they are; the escaped name in the label
ScreenshotCard(ss) ==
    [onclick |-> ss.path, src |-> ss.path, alt |-> ss.name, label |-> _escape_html(ss.name)]

\* failure.analysis or FailureAnalysis("", "", "")
AnalysisOf(f) ==
    IF f.analysis = None
      THEN [root_cause |-> <<>>, explanation |-> <<>>, suggested_fix |-> <<>>]
      ELSE f.analysis[1]

\* _generate_test_row: every value the row interpolates, as interpolated
TestRow(f, index) ==
    [index |-> index,
     badge_text |-> IF f.status = "timedOut" THEN "TIMEOUT" ELSE "FAILED",
     data_file |-> _escape_html(Text(f.test_file)),
     title |-> _escape_html(Text(f.test_name)),
     duration_ms |-> f.duration_ms,
     file_text |-> _escape_html(Text(f.test_file)),
     root_cause |-> _format_markdown(AnalysisOf(f).root_cause),
     explanation |-> _format_markdown(AnalysisOf(f).explanation),
     suggested_fix |-> _format_markdown(AnalysisOf(f).suggested_fix),
     error_message |-> _escape_html(Truncate(StripAnsi(Text(f.error_message)), ErrorLimit)),
     screenshots |-> [k \in DOMAIN f.screenshots |-> ScreenshotCard(f.screenshots[k])],
     trace |-> IF f.trace_path = None \/ f.trace_path = Some(<<>>) THEN None ELSE f.trace_path]

\* datetime.now().strftime('%H:%M') at the time of the run
Clock == {"09:30", "23:59"}

\* the document generate_html_report writes: the four stat cards of the
\* header (Failed Tests, Files Affected, Total Duration, Generated At) and
\* a row per failure
HtmlDocument(fs, now) ==
    [failed_tests |-> Len(fs),
     files_affected |-> Statistics(fs).files_affected,
     total_seconds |-> Statistics(fs).total_duration \div 1000,
     generated_at |-> now,
     rows |-> [i \in DOMAIN fs |-> TestRow(fs[i], i - 1)]]

\* mutant of generate_json_report: the analysis as the HTML row takes it,
\* three empty fields in place of null
generate_json_report_NoNull(fs) ==
    [total_failures |-> Len(fs),
     failures |-> [i \in DOMAIN fs |->
        [test_name |-> fs[i].test_name,
         test_file |-> fs[i].test_file,
         duration_ms |-> fs[i].duration_ms,
         status |-> fs[i].status,
         error |-> [message |-> fs[i].error_message, stack |-> fs[i].error_stack],
         screenshots |-> fs[i].screenshots,
         trace_path |-> fs[i].trace_path,
         ai_analysis |-> Some(AnalysisOf(fs[i]))]]]

\* the report generate_json_report dumps
generate_json_report(fs) ==
    [total_failures |-> Len(fs),
     failures |-> [i \in DOMAIN fs |->
        [test_name |-> fs[i].test_name,
         test_file |-> fs[i].test_file,
         duration_ms |-> fs[i].duration_ms,
         status |-> fs[i].status,
         error |-> [message |-> fs[i].error_message, stack |-> fs[i].error_stack],
         screenshots |-> fs[i].screenshots,
         trace_path |-> fs[i].trace_path,
         ai_analysis |-> fs[i].analysis]]]

(***************************************************************************)
(* main().                                                                 *)
(***************************************************************************)
InitCommon ==
    /\ results = None
    /\ failures = <<>>
    /\ idx = 1
    /\ requests = <<>>
    /\ answers = <<>>
    /\ outDir = FALSE
    /\ assets = {}
    /\ stats = None
    /\ html = None
    /\ json = None
    /\ parsed = None

\* the file systems of a run on file f: an outcome for every screenshot
\* and trace of the failures its document holds
Disks(f) ==
    LET fs == IF f.kind = "json" THEN get_failures(Some(f.doc)) ELSE <<>>
    IN  {so @@ to : so \in [ScreenshotSlots(fs) -> ScreenshotOutcomes],
                    to \in [TraceSlots(fs) -> TraceOutcomes]}

\* a run of main() on one of MainDocs
Init ==
    /\ InitCommon
    /\ pc = "start"
    /\ file \in ResultsFiles(MainDocs)
    /\ disk \in Disks(file)
    /\ env \in Environments
    /\ configured = is_configured(env.endpoint, env.api_key)
    /\ response = <<>>

\* a run of main() on one of Docs, followed as far as the walk
InitExtract ==
    /\ InitCommon
    /\ pc = "start"
    /\ file \in ResultsFiles(Docs)
    /\ disk = <<>>
    /\ env = [endpoint |-> "", api_key |-> ""]
    /\ configured = is_configured(env.endpoint, env.api_key)
    /\ response = <<>>

\* a call of _parse_response on one of Responses
InitParse ==
    /\ InitCommon
    /\ pc = "parse"
    /\ file = [kind |-> "missing"]
    /\ disk = <<>>
    /\ env = [endpoint |-> "https://x.openai.azure.com", api_key |-> "key"]
    /\ configured = is_configured(env.endpoint, env.api_key)
    /\ response \in Responses

\* if not results_file or not results_file.exists(): sys.exit(1)
Locate ==
    /\ pc = "start"
    /\ pc' = IF file.kind = "missing" THEN "exit1" ELSE "load"
    /\ UNCHANGED <<env, file, results, failures, configured, idx, requests, answers, outDir,
                   disk, assets, stats, html, json, response, parsed>>

\* mutant of load: True whatever json.load did
load_AlwaysTrue(f) == IF f.kind = "json" THEN [ok |-> TRUE, results |-> Some(f.doc)]
                      ELSE [ok |-> TRUE, results |-> None]

\* PlaywrightResultsParser.load: json.load, True; any exception: False
load(f) == IF f.kind = "json" THEN [ok |-> TRUE, results |-> Some(f.doc)]
           ELSE [ok |-> FALSE, results |-> None]

\* if not parser_obj.load(): sys.exit(1)
Load ==
    /\ pc = "load"
    /\ results' = load(file).results
    /\ pc' = IF load(file).ok THEN "loaded" ELSE "exit1"
    /\ UNCHANGED <<env, file, failures, configured, idx, requests, answers, outDir, disk,
                   assets, stats, html, json, response, parsed>>

\* mutant of AfterExtract: with no failure main returns at once
AfterExtract_EarlyReturn(fs) == IF fs = <<>> THEN "done" ELSE "analyze"

\* if not failures: the reports of the empty list; else the analysis loop
AfterExtract(fs) == IF fs = <<>> THEN "generator" ELSE "analyze"

\* failures = parser_obj.get_failures()
GetFailures ==
    /\ pc = "loaded"
    /\ failures' = get_failures(results)
    /\ pc' = "extracted"
    /\ UNCHANGED <<env, file, results, configured, idx, requests, answers, outDir, disk,
                   assets, stats, html, json, response, parsed>>

\* the branch of main() on the list: no failure, or some
Branch ==
    /\ pc = "extracted"
    /\ pc' = AfterExtract(failures)
    /\ UNCHANGED <<env, file, results, failures, configured, idx, requests, answers, outDir,
                   disk, assets, stats, html, json, response, parsed>>

\* mutant of AfterAnalyze: an analysis error ends the run
AfterAnalyze_ErrorHalts(analysis, i, n) ==
    IF analysis.root_cause = <<"AI Analysis Error">> THEN "exit1"
    ELSE IF i = n THEN "generator" ELSE "analyze"

\* where main() goes once failure i of n has its analysis: the next
\* iteration, or the reports after the last one, whatever the analysis is
AfterAnalyze(analysis, i, n) == IF i = n THEN "generator" ELSE "analyze"

\* mutant of NextIndex: a failure whose analysis is an error is analysed again
NextIndex_RetryOnError(analysis, i) ==
    IF analysis.root_cause = <<"AI Analysis Error">> THEN i ELSE i + 1

\* enumerate(failures, 1): the next failure, whatever the analysis is
NextIndex(analysis, i) == i + 1

\* one iteration of the loop over enumerate(failures, 1) without
\* credentials: analyze_failure returns the fixed analysis, main attaches it
AnalyzeUnconfigured ==
    /\ pc = "analyze"
    /\ ~configured
    /\ failures' = [failures EXCEPT ![idx].analysis = Some(NotConfigured)]
    /\ idx' = NextIndex(NotConfigured, idx)
    /\ pc' = AfterAnalyze(NotConfigured, idx, Len(failures))
    /\ UNCHANGED <<env, file, results, configured, requests, answers, outDir, disk,
                   assets, stats, html, json, response, parsed>>

\* the iteration with credentials, up to the blocking call:
\* self.client.chat.completions.create(...)
Request ==
    /\ pc = "analyze"
    /\ configured
    /\ requests' = Append(requests, idx - 1)
    /\ pc' = "awaiting"
    /\ UNCHANGED <<env, file, results, failures, configured, idx, answers, outDir, disk,
                   assets, stats, html, json, response, parsed>>

\* the call returns or raises; failure.analysis = analysis
Respond ==
    /\ pc = "awaiting"
    /\ \E outcome \in BackendOutcomes :
        LET analysis == analyze_failure(outcome)
        IN  /\ failures' = [failures EXCEPT ![idx].analysis = Some(analysis)]
            /\ answers' = Append(answers, outcome)
            /\ idx' = NextIndex(analysis, idx)
            /\ pc' = AfterAnalyze(analysis, idx, Len(failures))
    /\ UNCHANGED <<env, file, results, configured, requests, outDir, disk,
                   assets, stats, html, json, response, parsed>>

\* failure.analysis = analyzer.analyze_failure(failure)
Analyze == AnalyzeUnconfigured \/ Request \/ Respond

\* generator = ReportGenerator(args.output_dir, args.playwright_report)
MakeGenerator ==
    /\ pc = "generator"
    /\ outDir' = TRUE
    /\ pc' = "html"
    /\ UNCHANGED <<env, file, results, failures, configured, idx, requests, answers, disk,
                   assets, stats, html, json, response, parsed>>

\* html_path = generator.generate_html_report(failures): the copies, the
\* rows and the statistics, then the file
GenerateHtml ==
    /\ pc = "html"
    /\ LET processed == [i \in DOMAIN failures |-> ProcessAssets(failures[i], i - 1, disk)]
       IN  /\ failures' = processed
           /\ assets' = CopiedAssets(failures, disk)
           /\ stats' = Some(Statistics(processed))
           /\ \E now \in Clock : html' = Some(HtmlDocument(processed, now))
    /\ pc' = "json"
    /\ UNCHANGED <<env, file, results, configured, idx, requests, answers, outDir, disk,
                   json, response, parsed>>

\* json_path = generator.generate_json_report(failures)
GenerateJson ==
    /\ pc = "json"
    /\ json' = Some(generate_json_report(failures))
    /\ pc' = "done"
    /\ UNCHANGED <<env, file, results, failures, configured, idx, requests, answers, outDir,
                   disk, assets, stats, html, response, parsed>>

\* AzureOpenAIAnalyzer._parse_response(content)
ParseResponse ==
    /\ pc = "parse"
    /\ parsed' = Some(_parse_response(response))
    /\ pc' = "parsed"
    /\ UNCHANGED <<env, file, results, failures, configured, idx, requests, answers, outDir,
                   disk, assets, stats, html, json, response>>

Next ==
    \/ Locate \/ Load \/ GetFailures \/ Branch \/ Analyze
    \/ MakeGenerator \/ GenerateHtml \/ GenerateJson

Spec == Init /\ [][Next]_vars

NextExtract == Locate \/ Load \/ GetFailures

SpecExtract == InitExtract /\ [][NextExtract]_vars

NextParse == ParseResponse

SpecParse == InitParse /\ [][NextParse]_vars

\* a call of generate_json_report on a list of records, some with an
\* analysis and some without: the records the walk gives on MainDocs
WalkedRecords ==
    UNION {{get_failures(Some(d))[i] : i \in DOMAIN get_failures(Some(d))} : d \in MainDocs}

Analyses == {None, Some(NotConfigured), Some(AnalysisError("Connection error."))}

Records == {[r EXCEPT !.analysis = a] : r \in WalkedRecords, a \in Analyses}

RecordLists == UNION {[1..n -> Records] : n \in 0..MaxRecords}

InitReport ==
    /\ pc = "json"
    /\ file = [kind |-> "missing"]
    /\ env = [endpoint |-> "", api_key |-> ""]
    /\ configured = is_configured(env.endpoint, env.api_key)
    /\ results = None
    /\ failures \in RecordLists
    /\ idx = 1
    /\ requests = <<>>
    /\ answers = <<>>
    /\ outDir = TRUE
    /\ disk = <<>>
    /\ assets = {}
    /\ stats = None
    /\ html = None
    /\ json = None
    /\ response = <<>>
    /\ parsed = None

NextReport == GenerateJson

SpecReport == InitReport /\ [][NextReport]_vars

\* the positions of main()
Positions ==
    {"start", "load", "loaded", "extracted", "analyze", "awaiting", "generator",
     "html", "json", "done", "exit1"}

\* main() moves on: a step to another position, while the run has not ended
Advance == pc \notin {"done", "exit1"} /\ pc' \in Positions \ {pc}

\* the run of main() under the scheduling of a sequential program: it does
\* not stay forever at a position it can leave
FairSpec == Spec /\ WF_pc(Advance)

(***************************************************************************)
(* Positions in the loaded document, used to state the claims about the    *)
(* walk without the walk: a result is addressed by the path of child       *)
(* indices to its suite and by its spec, test and result indices.          *)
(***************************************************************************)
TopSuites == IF results = None THEN <<>> ELSE Get(results[1], "suites", <<>>)

RECURSIVE SuitePathsFrom(_, _)
SuitePathsFrom(suiteSeq, prefix) ==
    UNION {{prefix \o <<k>>}
             \cup SuitePathsFrom(Get(suiteSeq[k], "suites", <<>>), prefix \o <<k>>)
           : k \in DOMAIN suiteSeq}

SuitePaths == SuitePathsFrom(TopSuites, <<>>)

RECURSIVE SuiteAtIn(_, _)
SuiteAtIn(suiteSeq, sp) ==
    IF Len(sp) = 1 THEN suiteSeq[sp[1]]
    ELSE SuiteAtIn(Get(suiteSeq[sp[1]], "suites", <<>>), Tail(sp))

SuiteAt(sp) == SuiteAtIn(TopSuites, sp)

SpecAt(sp, s) == Get(SuiteAt(sp), "specs", <<>>)[s]

ResultsAt(sp, s, t) == Get(Get(SpecAt(sp, s), "tests", <<>>)[t], "results", <<>>)

ResultPaths ==
    UNION {UNION {UNION {{[sp |-> sp, s |-> s, t |-> t, r |-> r] :
                              r \in DOMAIN ResultsAt(sp, s, t)}
                         : t \in DOMAIN Get(SpecAt(sp, s), "tests", <<>>)}
                  : s \in DOMAIN Get(SuiteAt(sp), "specs", <<>>)}
           : sp \in SuitePaths}

ResultAt(p) == ResultsAt(p.sp, p.s, p.t)[p.r]

StatusAt(p) == Get(ResultAt(p), "status", "")

\* the results Playwright reports as failed or timed out
FailingPaths == {p \in ResultPaths : StatusAt(p) \in {"failed", "timedOut"}}

\* suite a is visited with its specs before suite b: a encloses b, or they
\* part at some level where a's branch is the earlier child
SuiteBefore(a, b) ==
    \E i \in 1..Len(b) :
        /\ \A j \in 1..(i - 1) : j <= Len(a) /\ a[j] = b[j]
        /\ \/ i = Len(a) + 1
           \/ i <= Len(a) /\ a[i] < b[i]

\* document order of two results
Before(p, q) ==
    \/ SuiteBefore(p.sp, q.sp)
    \/ /\ p.sp = q.sp
       /\ \/ p.s < q.s
          \/ p.s = q.s /\ p.t < q.t
          \/ p.s = q.s /\ p.t = q.t /\ p.r < q.r

\* the position of failing result p among the failing results, from 1
Rank(p) == Cardinality({q \in FailingPaths : Before(q, p)}) + 1

\* the record of failing result p, when there is one at its rank
HasRecord(p) == Rank(p) <= Len(failures)
RecordOf(p) == failures[Rank(p)]

\* the file of the nearest enclosing suite that declares one, else ""
NearestFile(sp) ==
    LET declaring == {n \in 1..Len(sp) : "file" \in DOMAIN SuiteAt(SubSeq(sp, 1, n))}
    IN  IF declaring = {} THEN ""
        ELSE SuiteAt(SubSeq(sp, 1, CHOOSE n \in declaring : \A m \in declaring : m <= n)).file

Extracted == pc = "extracted"


(***************************************************************************)
(* Claims about the walk, checked under SpecExtract.                       *)
(***************************************************************************)
CountRecords(st) == Cardinality({i \in DOMAIN failures : failures[i].status = st})
CountResults(st) == Cardinality({p \in ResultPaths : StatusAt(p) = st})

\* C1 as stated: get_failures returns exactly one record for each result
\* whose status is exactly "failed" or "timed_out", the record carrying that
\* status.
C1_Original ==
    Extracted =>
        /\ Len(failures) = CountResults("failed") + CountResults("timed_out")
        /\ \A st \in {"failed", "timed_out"} : CountRecords(st) = CountResults(st)

\* C1, amended: get_failures returns exactly one record for each result whose
\* status is exactly "failed" or "timedOut" (one per attempt result), and the
\* record's status field carries that status.
C1_OneRecordPerFailedResult ==
    Extracted =>
        /\ Len(failures) = Cardinality(FailingPaths)
        /\ \A st \in {"failed", "timedOut"} : CountRecords(st) = CountResults(st)

\* C1 witness: one spec with a failed and a timed-out result, both reported
C1_Witness ==
    /\ Extracted
    /\ \E p, q \in FailingPaths :
        /\ p.sp = q.sp /\ p.s = q.s
        /\ StatusAt(p) = "failed" /\ StatusAt(q) = "timedOut"
    /\ CountRecords("failed") >= 1 /\ CountRecords("timedOut") >= 1

\* C2 as stated: a document whose results all have a status outside
\* {"failed", "timed_out"} yields no record.
C2_Original ==
    Extracted =>
        ((\A p \in ResultPaths : StatusAt(p) \notin {"failed", "timed_out"})
            => failures = <<>>)

\* C2, amended: no record is produced for a result whose status is outside
\* {"failed", "timedOut"}: every record carries one of these two statuses,
\* there are no more records than such results, and a document holding only
\* other statuses (passed, skipped, timed_out, missing, ...) yields none.
C2_NoRecordForOtherStatus ==
    Extracted =>
        /\ \A i \in DOMAIN failures : failures[i].status \in {"failed", "timedOut"}
        /\ Len(failures) <= Cardinality(FailingPaths)
        /\ (FailingPaths = {} => failures = <<>>)

\* C2 witness: a document with a skipped result and no failing one, and no
\* record
C2_Witness ==
    /\ Extracted
    /\ \E p \in ResultPaths : StatusAt(p) = "skipped"
    /\ FailingPaths = {}
    /\ failures = <<>>

FileValues == Files \cup {"", "login.spec.ts"}

\* C3: every record's test_file is the file of the nearest enclosing suite
\* that declares one, and "" when none does: each file is reported by as
\* many records as there are failing results whose nearest declaring suite
\* declares it.
C3_FileInheritance ==
    Extracted =>
        /\ \A i \in DOMAIN failures : failures[i].test_file \in FileValues
        /\ \A v \in FileValues :
              Cardinality({i \in DOMAIN failures : failures[i].test_file = v})
                = Cardinality({p \in FailingPaths : NearestFile(p.sp) = v})

\* C3 witness: a failure three suites deep where only the root declares a
\* file, reported with the root's file
C3_Witness ==
    /\ Extracted
    /\ \E p \in FailingPaths :
        /\ Len(p.sp) = 3
        /\ "file" \in DOMAIN SuiteAt(SubSeq(p.sp, 1, 1))
        /\ "file" \notin DOMAIN SuiteAt(SubSeq(p.sp, 1, 2))
        /\ "file" \notin DOMAIN SuiteAt(p.sp)
        /\ RecordOf(p).test_file = SuiteAt(SubSeq(p.sp, 1, 1)).file

\* the fields of a failing result that its record shows
ErrorsGiven(r) == "errors" \in DOMAIN r /\ Len(r.errors) > 0

\* C4 as stated: with both error and errors present the message and stack
\* come from the first element of errors (nothing, when it has none) and not
\* from error, which is used only when errors is absent.
C4_Original ==
    Extracted =>
        \A p \in FailingPaths :
            LET r == ResultAt(p)
            IN  ("errors" \in DOMAIN r /\ "error" \in DOMAIN r) =>
                    /\ HasRecord(p)
                    /\ RecordOf(p).error_message =
                         (IF Len(r.errors) > 0 THEN Get(r.errors[1], "message", "") ELSE "")
                    /\ RecordOf(p).error_stack =
                         (IF Len(r.errors) > 0 THEN Get(r.errors[1], "stack", "") ELSE "")

\* C4, amended: when errors is present and not empty the message and stack
\* come from its first element, whatever error holds; the singular error is
\* used only when errors is absent or empty; with neither, both are "".
C4_ErrorPrecedence ==
    Extracted =>
        \A p \in FailingPaths :
            LET r == ResultAt(p)
                src == IF ErrorsGiven(r) THEN r.errors[1]
                       ELSE IF "error" \in DOMAIN r THEN r.error
                       ELSE <<>>
            IN  /\ HasRecord(p)
                /\ RecordOf(p).error_message = Get(src, "message", "")
                /\ RecordOf(p).error_stack = Get(src, "stack", "")

\* C4 witness: a failed result with both keys, reported with the message of
\* errors[0], which differs from that of error
C4_Witness ==
    /\ Extracted
    /\ \E p \in FailingPaths :
        LET r == ResultAt(p)
        IN  /\ ErrorsGiven(r) /\ "error" \in DOMAIN r
            /\ Get(r.error, "message", "") = "E"
            /\ RecordOf(p).error_message = "P1"
            /\ RecordOf(p).error_stack = "at P1"

\* the attachments of result r that process_suite takes for a trace or a
\* video (the screenshot rule is tested first), by position
AttachmentsAt(p) == Get(ResultAt(p), "attachments", <<>>)
TraceAt(atts) == {i \in DOMAIN atts : ~IsScreenshot(atts[i]) /\ IsTrace(atts[i])}
VideoAt(atts) ==
    {i \in DOMAIN atts : ~IsScreenshot(atts[i]) /\ ~IsTrace(atts[i]) /\ IsVideo(atts[i])}
First(S) == CHOOSE i \in S : \A j \in S : i <= j

\* C5: trace_path is the path of the first attachment, in input order, that
\* qualifies as a trace, and video_path that of the first qualifying video.
C5_FirstMatchWins ==
    Extracted =>
        \A p \in FailingPaths :
            LET atts == AttachmentsAt(p)
            IN  /\ HasRecord(p)
                /\ RecordOf(p).trace_path =
                     (IF TraceAt(atts) = {} THEN None
                      ELSE Some(Get(atts[First(TraceAt(atts))], "path", <<>>)))
                /\ RecordOf(p).video_path =
                     (IF VideoAt(atts) = {} THEN None
                      ELSE Some(Get(atts[First(VideoAt(atts))], "path", <<>>)))

\* an attachment in no category, as the claim lists the conditions
NoCategory(att) ==
    LET name == Lower(Get(att, "name", <<>>))
        ct == Get(att, "contentType", <<>>)
    IN  /\ \A w \in {"screenshot", "trace", "video"} : ~Contains(w, name)
        /\ ~StartsWith(ct, "image/") /\ ~StartsWith(ct, "video/")
        /\ ~EndsWith(Get(att, "path", <<>>), ".zip")

\* C6: an attachment matching no category is in none of screenshots,
\* trace_path, video_path, and the record's attachments list is the result's
\* list unchanged.
C6_UnmatchedAttachment ==
    Extracted =>
        \A p \in FailingPaths :
            LET atts == AttachmentsAt(p)
            IN  /\ HasRecord(p)
                /\ RecordOf(p).attachments = atts
                /\ \A i \in DOMAIN atts :
                    NoCategory(atts[i]) =>
                        LET path == Get(atts[i], "path", <<>>)
                        IN  /\ \A k \in DOMAIN RecordOf(p).screenshots :
                                  RecordOf(p).screenshots[k].path # path
                            /\ RecordOf(p).trace_path # Some(path)
                            /\ RecordOf(p).video_path # Some(path)

\* C6 witness: a failed result with a screenshot and an attachment in no
\* category; the record keeps both in attachments and one in screenshots
C6_Witness ==
    /\ Extracted
    /\ \E p \in FailingPaths :
        LET atts == AttachmentsAt(p)
        IN  /\ Len(atts) = 2
            /\ \E i \in DOMAIN atts : NoCategory(atts[i])
            /\ Len(RecordOf(p).screenshots) = 1
            /\ RecordOf(p).attachments = atts

\* C7: the returned sequence follows document order: top-level suites in
\* order, a suite's own specs (specs, tests, results in order) before its
\* child suites, child suites depth-first in order.  The k-th record is the
\* record of the k-th failing result in that order.
C7_DocumentOrder ==
    Extracted =>
        \A p \in FailingPaths :
            /\ HasRecord(p)
            /\ RecordOf(p).status = StatusAt(p)
            /\ RecordOf(p).test_file = NearestFile(p.sp)
            /\ RecordOf(p).test_name = Get(SpecAt(p.sp, p.s), "title", "Unknown")

\* C7 witness: a suite with a failing spec of its own and a failing child
\* suite declaring another file; the suite's own record comes first
C7_Witness ==
    /\ Extracted
    /\ \E p, q \in FailingPaths :
        /\ Len(q.sp) = Len(p.sp) + 1 /\ SubSeq(q.sp, 1, Len(p.sp)) = p.sp
        /\ NearestFile(p.sp) # NearestFile(q.sp)
        /\ Rank(p) = 1 /\ Rank(q) = 2
        /\ failures[1].test_file = NearestFile(p.sp)
        /\ failures[2].test_file = NearestFile(q.sp)


(***************************************************************************)
(* Claims about a full run, checked under Spec.                            *)
(***************************************************************************)
\* C8: a document with no failed or timed-out result (an empty or absent
\* suites list included) gives an empty list; the run goes on without error
\* and without a backend request, and ends with both reports written, the
\* JSON one declaring total_failures = 0 and an empty failures list.
C8_ZeroFailures ==
    (results # None /\ FailingPaths = {}) =>
        /\ failures = <<>>
        /\ requests = <<>>
        /\ pc \notin {"analyze", "exit1"}
        /\ (pc # "done" => ENABLED Next)
        /\ (pc = "done" =>
              /\ outDir
              /\ html # None /\ html[1].failed_tests = 0 /\ html[1].rows = <<>>
              /\ stats[1].avg_duration = 0
              /\ json # None /\ json[1].total_failures = 0 /\ json[1].failures = <<>>)

\* C8 witness: the run on a document whose only result passed has ended,
\* both reports written
C8_Witness ==
    /\ pc = "done"
    /\ ResultPaths # {} /\ FailingPaths = {}
    /\ html # None /\ json # None /\ json[1].total_failures = 0

(***************************************************************************)
(* Claims about _parse_response, checked under SpecParse.                  *)
(***************************************************************************)
Markers == {RootCauseMarker, ExplanationMarker, SuggestedFixMarker}

HasMarker(s) == \E i \in DOMAIN s : \E m \in Markers : IsMarker(s[i], m)

AllEmpty(a) == a.root_cause = <<>> /\ a.explanation = <<>> /\ a.suggested_fix = <<>>

\* C9: for a response with none of the three markers, explanation is the
\* raw response verbatim and root_cause and suggested_fix are "See
\* explanation"; and for a non-empty response the analysis is never three
\* empty fields.
C9_Fallback ==
    pc = "parsed" =>
        /\ ~HasMarker(response) =>
              parsed[1] = [root_cause |-> SeeExplanation, explanation |-> response,
                           suggested_fix |-> SeeExplanation]
        /\ response # <<>> => ~AllEmpty(parsed[1])

\* C9 witness: a response without markers that starts with a newline and
\* holds a word, returned unstripped as the explanation
C9_Witness ==
    /\ pc = "parsed"
    /\ ~HasMarker(response)
    /\ Len(response) >= 2 /\ response[1] = Newline /\ Contains("w", response)
    /\ parsed[1].explanation = response
    /\ parsed[1].root_cause = SeeExplanation

\* the text the claim gives a section: after the first occurrence of its
\* marker, up to the next marker of a later section or the end; empty when
\* the marker is missing
SectionText(s, marker, later) ==
    LET at == {i \in DOMAIN s : IsMarker(s[i], marker)}
    IN  IF at = {} THEN <<>>
        ELSE LET i == CHOOSE x \in at : \A y \in at : x <= y
                 ends == {e \in (i + 1)..Len(s) : \E m \in later : IsMarker(s[e], m)}
                 e == IF ends = {} THEN Len(s) + 1
                      ELSE CHOOSE x \in ends : \A y \in ends : x <= y
             IN  Strip(SubSeq(s, i + 1, e - 1))

SectionTexts(s) ==
    [root_cause |-> SectionText(s, RootCauseMarker, {ExplanationMarker, SuggestedFixMarker}),
     explanation |-> SectionText(s, ExplanationMarker, {SuggestedFixMarker}),
     suggested_fix |-> SectionText(s, SuggestedFixMarker, {})]

\* C10: each extracted field is the text after its own marker up to the
\* start of the next section marker in the response, or to the end; a
\* section whose marker is missing is empty; no field holds a later
\* section's marker or body.  (When every section is empty the fallback of
\* C9 applies.)
C10_SectionBounds ==
    pc = "parsed" =>
        \/ parsed[1] = SectionTexts(response)
        \/ /\ AllEmpty(SectionTexts(response))
           /\ parsed[1] = [root_cause |-> SeeExplanation, explanation |-> response,
                           suggested_fix |-> SeeExplanation]

(***************************************************************************)
(* Claims about the analysis loop, checked under Spec.                     *)
(***************************************************************************)
\* the list as the walk returned it
Walked == get_failures(results)

AfterAnalysis == pc \in {"generator", "html", "json", "done"}

\* C11: when the endpoint or the API key is empty, no backend request is
\* ever issued during the run, and once the analysis loop is over every
\* failure record's analysis has root_cause exactly
\* "Azure OpenAI not configured".
C11_Unconfigured ==
    (env.endpoint = "" \/ env.api_key = "") =>
        /\ requests = <<>> /\ answers = <<>> /\ pc # "awaiting"
        /\ AfterAnalysis =>
              \A i \in DOMAIN failures :
                  /\ failures[i].analysis # None
                  /\ failures[i].analysis[1].root_cause = <<"Azure OpenAI not configured">>

\* C11 witness: a run with the endpoint set and the key empty has ended on
\* two failures
C11_Witness ==
    /\ pc = "done"
    /\ env.endpoint # "" /\ env.api_key = ""
    /\ Len(failures) = 2
    /\ \A i \in DOMAIN failures :
          failures[i].analysis = Some(NotConfigured)

\* the failure (from 1) the k-th answer was for
AnsweredFailure(k) == requests[k] + 1

IsBackendError(outcome) == outcome.kind \in {"error", "no_content"}

\* C12: every error raised while requesting or parsing one failure's
\* analysis (the request raises, or the message has no content) becomes an
\* analysis with root_cause "AI Analysis Error" and an explanation that
\* embeds the error description; the run never ends on it, and every other
\* failure is analysed with the result of its own answer.
C12_ErrorIsolation ==
    /\ Len(answers) <= Len(requests)
    /\ \A k \in DOMAIN answers :
          LET a == failures[AnsweredFailure(k)].analysis
          IN  /\ a # None
              /\ IsBackendError(answers[k]) =>
                    /\ a[1].root_cause = <<"AI Analysis Error">>
                    /\ Len(a[1].explanation) = 2
                    /\ a[1].explanation[1] = "Failed to get AI analysis: "
                    /\ answers[k].kind = "error" =>
                          a[1].explanation[2] = answers[k].description
              /\ answers[k].kind = "text" =>
                    /\ a[1] = _parse_response(answers[k].content)
                    /\ a[1].root_cause # <<"AI Analysis Error">>
    /\ (pc = "exit1" => results = None)
    /\ (configured /\ AfterAnalysis) => Len(answers) = Len(failures)

\* C12 witness: the first request raised, the second was answered in the
\* three-section format, and the run has ended with both analyses
C12_Witness ==
    /\ pc = "done"
    /\ Len(answers) = 2
    /\ answers[1].kind = "error"
    /\ answers[2].kind = "text" /\ Len(answers[2].content) > 1
    /\ failures[1].analysis[1].root_cause = <<"AI Analysis Error">>
    /\ failures[2].analysis[1].root_cause = <<"w">>
    /\ failures[2].analysis[1].suggested_fix = <<"w">>

(***************************************************************************)
(* Claims about the reports, checked under Spec.                           *)
(***************************************************************************)
Reserved == {"&", "<", ">", "\"", "'"}

\* no reserved character of the value is left as it was
NoRaw(text) == \A k \in DOMAIN text : text[k] \notin Reserved

\* C13: every free-text value the HTML report interpolates (test name,
\* test file, error text, the three analysis fields, the screenshot name in
\* the label and in the alt attribute, the asset paths in onclick, src and
\* href) is embedded with none of the five reserved characters left raw.
C13_Escaped ==
    html # None =>
        \A i \in DOMAIN html[1].rows :
            LET row == html[1].rows[i]
            IN  /\ NoRaw(row.data_file) /\ NoRaw(row.title) /\ NoRaw(row.file_text)
                /\ NoRaw(row.root_cause) /\ NoRaw(row.explanation)
                /\ NoRaw(row.suggested_fix)
                /\ NoRaw(row.error_message)
                /\ \A k \in DOMAIN row.screenshots :
                      /\ NoRaw(row.screenshots[k].label)
                      /\ NoRaw(row.screenshots[k].alt)
                      /\ NoRaw(row.screenshots[k].onclick)
                      /\ NoRaw(row.screenshots[k].src)
                /\ (row.trace # None => NoRaw(row.trace[1]))

(***************************************************************************)
(* Claims about generate_json_report, checked under SpecReport.            *)
(***************************************************************************)
\* C14: for every list of failure records, the JSON report's
\* total_failures is the length of its failures array, which has one entry
\* per record in the list's order, each with the record's name, file,
\* status and its error message and stack as they are; ai_analysis is null
\* exactly when the record has no analysis, else its three fields.
C14_JsonShape ==
    json # None =>
        LET report == json[1]
        IN  /\ report.total_failures = Len(report.failures)
            /\ Len(report.failures) = Len(failures)
            /\ \A i \in DOMAIN failures :
                  LET entry == report.failures[i]
                  IN  /\ entry.test_name = failures[i].test_name
                      /\ entry.test_file = failures[i].test_file
                      /\ entry.status = failures[i].status
                      /\ entry.duration_ms = failures[i].duration_ms
                      /\ entry.error.message = failures[i].error_message
                      /\ entry.error.stack = failures[i].error_stack
                      /\ (entry.ai_analysis = None <=> failures[i].analysis = None)
                      /\ failures[i].analysis # None =>
                            /\ entry.ai_analysis = failures[i].analysis
                            /\ DOMAIN entry.ai_analysis[1] =
                                  {"root_cause", "explanation", "suggested_fix"}

\* C14 witness: the report of two different records, the first without an
\* analysis and with a quote for its message, the second with one
C14_Witness ==
    /\ json # None
    /\ Len(failures) = 2
    /\ failures[1].test_name # failures[2].test_name
    /\ failures[1].analysis = None /\ json[1].failures[1].ai_analysis = None
    /\ json[1].failures[1].error.message = "\""
    /\ failures[2].analysis # None /\ json[1].failures[2].ai_analysis # None
    /\ json[1].total_failures = 2

(***************************************************************************)
(* Claims about the course of a run, checked under Spec and FairSpec.      *)
(***************************************************************************)
InputError == file.kind \in {"missing", "invalid"}

\* C15: for a results file that is missing, unreadable or not valid JSON,
\* load returns False; the run goes no further than the exit with status
\* 1, and no analysis, output directory, asset, HTML or JSON report is ever
\* made.
C15_InputErrors ==
    InputError =>
        /\ ~load(file).ok
        /\ pc \in {"start", "load", "exit1"}
        /\ (pc # "exit1" => ENABLED Next)
        /\ results = None /\ failures = <<>> /\ requests = <<>>
        /\ ~outDir /\ assets = {} /\ html = None /\ json = None

\* C15 witness: the run on a file that is not JSON has exited with status 1
C15_Witness ==
    /\ file.kind = "invalid"
    /\ pc = "exit1"
    /\ html = None /\ json = None /\ ~outDir

ReportsWritten == html # None /\ json # None

\* C16: only an input error ends a run at the exit with status 1, the
\* analysis loop always has a failure to go on with, and once
\* load has succeeded the run leads to both the HTML and the JSON report
\* being written, whatever the backend answers and whatever the file
\* system does to the copies.
C16_ReportsAlwaysWritten ==
    /\ [](pc = "exit1" => InputError)
    /\ [](pc = "analyze" => idx <= Len(failures))
    /\ ((pc = "loaded") ~> (pc = "done" /\ ReportsWritten))

\* C16 witness: a run with credentials in which every request failed and
\* no screenshot or trace could be copied has ended with both reports
C16_Witness ==
    /\ pc = "done" /\ ReportsWritten
    /\ Len(answers) = 2
    /\ \A k \in DOMAIN answers : IsBackendError(answers[k])
    /\ Cardinality(DOMAIN disk) = 3
    /\ \A sl \in DOMAIN disk : disk[sl] \in {"missing", "copy_error"}
    /\ assets = {}

\* C17: with credentials, the requests issued so far are those for
\* failures 0, 1, 2, ... in list order, one each and none twice; while the
\* request for a failure is in flight exactly the failures before it have
\* an analysis; and the output directory, the copies and the reports are
\* made only when every failure has its analysis and its one request.
C17_Sequential ==
    configured =>
        /\ requests = [k \in 1..Len(requests) |-> k - 1]
        /\ Len(requests) <= Len(failures)
        /\ Len(requests) = Len(answers) + (IF pc = "awaiting" THEN 1 ELSE 0)
        /\ \A i \in DOMAIN failures : (failures[i].analysis # None <=> i <= Len(answers))
        /\ (outDir \/ assets # {} \/ html # None \/ json # None \/ AfterAnalysis) =>
              /\ Len(requests) = Len(failures)
              /\ \A i \in DOMAIN failures : failures[i].analysis # None

\* C17 witness: the second request is in flight after the first one failed;
\* the first failure has its analysis and the second has none
C17_Witness ==
    /\ configured
    /\ pc = "awaiting"
    /\ requests = <<0, 1>>
    /\ IsBackendError(answers[1])
    /\ failures[1].analysis # None
    /\ failures[2].analysis = None

(***************************************************************************)
(* Claims about the records through the reports, checked under Spec.       *)
(***************************************************************************)
AfterWalk == pc \notin {"start", "load", "loaded", "exit1"}

\* C18: once the walk has made the records, the only field of a record
\* that ever changes is its analysis: name, file, duration, error, status,
\* raw attachments, classified screenshots, trace path and video path keep
\* the walker's values through analysis, HTML and JSON rendering, and the
\* list keeps its records.
C18_RecordLifecycle ==
    AfterWalk =>
        /\ Len(failures) = Len(Walked)
        /\ \A i \in DOMAIN Walked : [failures[i] EXCEPT !.analysis = None] = Walked[i]

\* C19: in a full run each JSON entry's screenshots and trace_path are the
\* classified screenshots and trace path the walker derived for that
\* record, whatever the copies of the HTML run did.
C19_JsonLossless ==
    json # None =>
        \A i \in DOMAIN Walked :
            /\ json[1].failures[i].screenshots = Walked[i].screenshots
            /\ json[1].failures[i].trace_path = Walked[i].trace_path

\* the copies of a run on the walked list W: screenshot j of failure i
\* (both from 1) is rendered when it has a path and its source, or the file
\* of its name in playwright-report/data, was there and was copied
ShotPath(W, i, j) == Get(W[i].screenshots[j], "path", <<>>)

ShotKept(W, i, j) ==
    ShotPath(W, i, j) # <<>> /\ disk[<<i - 1, j - 1>>] \in {"source", "fallback"}

KeptShots(W, i) == {j \in DOMAIN W[i].screenshots : ShotKept(W, i, j)}

\* the position of kept screenshot j among the kept ones
KeptRank(kept, j) == Cardinality({k \in kept : k <= j})

HasTrace(W, i) == W[i].trace_path # None /\ W[i].trace_path # Some(<<>>)

\* C20: the HTML report has a row for every failure; the row shows, in
\* order, exactly the screenshots whose source was there or was found by
\* file name in playwright-report/data (and then copied from there), and
\* the trace link exactly when the trace was there and copied; a missing
\* source or a failing copy removes that one asset only, and the report is
\* written whatever the copies did.
C20_AssetDegradation ==
    /\ (pc \in {"json", "done"} => html # None)
    /\ html # None =>
          LET W == Walked
          IN  /\ Len(html[1].rows) = Len(W)
              /\ \A i \in DOMAIN W :
                    LET row == html[1].rows[i]
                        kept == KeptShots(W, i)
                    IN  /\ Len(row.screenshots) = Cardinality(kept)
                        /\ \A j \in kept :
                              LET card == row.screenshots[KeptRank(kept, j)]
                              IN  /\ card.alt = W[i].screenshots[j].name
                                  /\ \E a \in assets :
                                        /\ a.slot = <<i - 1, j - 1>>
                                        /\ a.dest = card.src
                                        /\ a.src = IF disk[<<i - 1, j - 1>>] = "source"
                                                     THEN ShotPath(W, i, j)
                                                     ELSE <<"playwright-report/", "data/">>
                                                            \o Name(ShotPath(W, i, j))
                        /\ (row.trace # None <=> (HasTrace(W, i) /\ disk[<<i - 1>>] = "source"))
              /\ Cardinality(assets) =
                    Cardinality({sl \in DOMAIN disk :
                        /\ disk[sl] \in {"source", "fallback"}
                        /\ (Len(sl) = 2 => ShotPath(W, sl[1] + 1, sl[2] + 1) # <<>>)})

\* C20 witness: of the first failure's two screenshots one was found in
\* playwright-report/data and the other failed to copy, its trace was
\* missing, and the report shows the one screenshot, no trace link and
\* the second failure's row
C20_Witness ==
    /\ html # None
    /\ Len(html[1].rows) = 2
    /\ disk[<<0, 0>>] = "fallback" /\ disk[<<0, 1>>] = "copy_error" /\ disk[<<0>>] = "missing"
    /\ Len(html[1].rows[1].screenshots) = 1
    /\ html[1].rows[1].trace = None
    /\ Cardinality(assets) = 1

(***************************************************************************)
(* Claims about the copied assets and the header, checked under Spec.      *)
(***************************************************************************)
\* the name a copy is to have: screenshot-{i}-{j}<ext> with the extension
\* of the source or .png, trace-{i}.zip
ScreenshotDest(i, j, src_path) ==
    <<"assets/", "screenshot-", Str(i), "-", Str(j),
      IF Suffix(src_path) = "" THEN ".png" ELSE Suffix(src_path)>>

TraceDest(i) == <<"assets/", "trace-", Str(i), ".zip">>

\* C21: screenshot j of failure i, j counted among the record's classified
\* screenshots before any is dropped, is copied to
\* assets/screenshot-{i}-{j}<ext> with the source's extension or .png when
\* it has none, and the trace of failure i to assets/trace-{i}.zip; no two
\* copies of one run are written to the same destination.
C21_AssetNames ==
    html # None =>
        LET W == Walked
        IN  /\ \A i \in DOMAIN W :
                  /\ \A j \in DOMAIN W[i].screenshots :
                        /\ ShotKept(W, i, j) <=> \E a \in assets : a.slot = <<i - 1, j - 1>>
                        /\ \A a \in assets :
                              a.slot = <<i - 1, j - 1>> =>
                                  a.dest = ScreenshotDest(i - 1, j - 1, ShotPath(W, i, j))
                  /\ (HasTrace(W, i) /\ disk[<<i - 1>>] = "source")
                        <=> \E a \in assets : a.slot = <<i - 1>>
                  /\ \A a \in assets : a.slot = <<i - 1>> => a.dest = TraceDest(i - 1)
            /\ \A a \in assets :
                  /\ a.slot[1] + 1 \in DOMAIN W
                  /\ Len(a.slot) = 2 => a.slot[2] + 1 \in DOMAIN W[a.slot[1] + 1].screenshots
            /\ \A a, b \in assets : a.slot # b.slot => a.dest # b.dest

\* C21 witness: two failures whose screenshots have the same source and
\* whose traces have the same source, all four copied, to four names
C21_Witness ==
    /\ html # None
    /\ Cardinality(assets) = 4
    /\ \E a, b \in assets :
          /\ a.slot = <<0, 0>> /\ b.slot = <<1, 0>>
          /\ a.src = b.src /\ a.dest # b.dest
          /\ a.dest = <<"assets/", "screenshot-", "0", "-", "0", ".jpg">>
    /\ \E a, b \in assets :
          /\ a.slot = <<0>> /\ b.slot = <<1>>
          /\ a.src = b.src /\ a.dest # b.dest
    /\ Cardinality({a.dest : a \in assets}) = 4

(***************************************************************************)
(* Claims about the classification, checked under SpecExtract.             *)
(***************************************************************************)
\* the category of an attachment as the rules are listed, the screenshot
\* rule first, then the trace rule, then the video rule
Category(att) ==
    LET name == Lower(Get(att, "name", <<>>))
        ct == Get(att, "contentType", <<>>)
    IN  IF Contains("screenshot", name) \/ StartsWith(ct, "image/") THEN "screenshot"
        ELSE IF Contains("trace", name) \/ EndsWith(Get(att, "path", <<>>), ".zip")
          THEN "trace"
        ELSE IF Contains("video", name) \/ StartsWith(ct, "video/") THEN "video"
        ELSE "none"

\* the attachments of a category, in input order, and their paths
InCategory(atts, c) == SelectSeq(atts, LAMBDA att : Category(att) = c)
PathsIn(atts, c) ==
    {Some(Get(InCategory(atts, c)[k], "path", <<>>)) : k \in DOMAIN InCategory(atts, c)}

\* C22: every attachment of a failed result falls in at most one of
\* screenshots, trace, video, the screenshot rule tested first, then the
\* trace rule, then the video rule; the record's screenshots are all the
\* attachments under the screenshot rule, in input order; trace_path and
\* video_path come from attachments of their category only; two results
\* with the same attachment list are classified alike.
C22_Partition ==
    Extracted =>
        /\ \A p \in FailingPaths :
              LET atts == AttachmentsAt(p)
                  shots == InCategory(atts, "screenshot")
              IN  /\ HasRecord(p)
                  /\ Len(RecordOf(p).screenshots) = Len(shots)
                  /\ \A k \in DOMAIN shots :
                        /\ RecordOf(p).screenshots[k].name = Get(shots[k], "name", <<"screenshot">>)
                        /\ RecordOf(p).screenshots[k].path = Get(shots[k], "path", <<>>)
                        /\ RecordOf(p).screenshots[k].contentType =
                              Get(shots[k], "contentType", <<>>)
                  /\ RecordOf(p).trace_path \in
                        (IF InCategory(atts, "trace") = <<>> THEN {None}
                         ELSE PathsIn(atts, "trace"))
                  /\ RecordOf(p).video_path \in
                        (IF InCategory(atts, "video") = <<>> THEN {None}
                         ELSE PathsIn(atts, "video"))
        /\ \A p, q \in FailingPaths :
              (HasRecord(p) /\ HasRecord(q) /\ AttachmentsAt(p) = AttachmentsAt(q)) =>
                  /\ RecordOf(p).screenshots = RecordOf(q).screenshots
                  /\ RecordOf(p).trace_path = RecordOf(q).trace_path
                  /\ RecordOf(p).video_path = RecordOf(q).video_path

\* C22 witness: an attachment that satisfies all three rules, after one
\* that is an image by content type only; both are screenshots, in that
\* order, and the record has no trace and no video
C22_Witness ==
    /\ Extracted
    /\ \E p \in FailingPaths :
        LET atts == AttachmentsAt(p)
        IN  /\ Len(atts) = 2
            /\ Get(atts[1], "name", <<>>) = <<"page">>
            /\ Contains("trace", Lower(Get(atts[2], "name", <<>>)))
            /\ Contains("screenshot", Lower(Get(atts[2], "name", <<>>)))
            /\ EndsWith(Get(atts[2], "path", <<>>), ".zip")
            /\ StartsWith(Get(atts[2], "contentType", <<>>), "video/")
            /\ Len(RecordOf(p).screenshots) = 2
            /\ RecordOf(p).screenshots[1].path = atts[1].path
            /\ RecordOf(p).screenshots[2].path = atts[2].path
            /\ RecordOf(p).trace_path = None
            /\ RecordOf(p).video_path = None

\* C23: the header of the HTML report embeds the count of failures, the
\* number of distinct test files, the total duration, the average duration
\* (total divided by count, 0 for an empty list) and the generation time,
\* all of the rendered list.
C23_HeaderStatistics ==
    html # None =>
        LET header == html[1]
            total == Sum([i \in DOMAIN failures |-> failures[i].duration_ms])
        IN  /\ header.failed_tests = Len(failures)
            /\ header.files_affected =
                  Cardinality({failures[i].test_file : i \in DOMAIN failures})
            /\ header.total_seconds = total \div 1000
            /\ header.generated_at \in Clock
            /\ "avg_duration" \in DOMAIN header
            /\ header.avg_duration =
                  (IF failures = <<>> THEN 0 ELSE total \div Len(failures))

====
